---- MODULE Spec2Model ----
(***************************************************************************)
(* memtester 4.5.1 (src/memtester.c): the memory acquisition strategy of   *)
(* main, alloc_using_hugepages and alloc_using_malloc, the split of the    *)
(* region into two halves, and the test loop with its exit status.         *)
(*                                                                         *)
(* Machine words are scaled down: size_t has SizeBits bits, int has        *)
(* IntBits bits (narrower than size_t, as on LP64), the loop counter (ul)  *)
(* has ULBits bits, a page has 2^PageShift bytes and a huge page twice     *)
(* that.  All arithmetic wraps at these widths as the C arithmetic does.   *)
(* The outcomes of malloc, mmap, mlock, open and of the test functions     *)
(* (tests.c) are inputs, chosen nondeterministically at each call.         *)
(* Option parsing (lines 286-391) precedes the initial state: its results  *)
(* (-H, -p, the size, the loop count, the test mask) are the inputs.       *)
(* Spec varies the requested size over one loop of two tests; SpecLoop     *)
(* varies the loop count and the test mask over one requested size.        *)
(***************************************************************************)
EXTENDS Integers, Sequences, FiniteSets, TLC

(* ---------------- widths and bounds of the model ---------------- *)
SizeBits == 7
IntBits == 6
ULBits == 2
PageShift == 3
ULBytesShift == 1
MaxReq == 34
MaxFree == 2
MaxAttempts == 14
MaxMask == 3

SizeMod == 2 ^ SizeBits
IntMod == 2 ^ IntBits
ULMod == 2 ^ ULBits
ULMax == ULMod - 1
PageSize == 2 ^ PageShift
HugePageSize == 2 * PageSize
ULBytes == 2 ^ ULBytesShift
MaxPasses == ULMax + 2

(* ---------------- program constants ---------------- *)
EXIT_FAIL_NONSTARTER == 1
EXIT_FAIL_ADDRESSLINES == 2
EXIT_FAIL_OTHERTEST == 4
EXIT_FAILURE == 1
NumTests == 15
NULL == 0
MAP_FAILED == SizeMod - 1
\* no exit status yet
Running == 0 - 1

(* ---------------- C arithmetic ---------------- *)
ToSize(n) == n % SizeMod
ToInt(n) == LET m == n % IntMod IN IF m >= IntMod \div 2 THEN m - IntMod ELSE m
ToUL(n) == n % ULMod
\* C integer division truncates toward zero
CDiv(a, b) == IF a >= 0 THEN a \div b ELSE -((-a) \div b)

RECURSIVE BitAnd(_, _)
BitAnd(a, b) ==
    IF a = 0 \/ b = 0 THEN 0
    ELSE (a % 2) * (b % 2) + 2 * BitAnd(a \div 2, b \div 2)

RECURSIVE BitOr(_, _)
BitOr(a, b) ==
    IF a = 0 THEN b
    ELSE IF b = 0 THEN a
    ELSE (IF a % 2 = 1 \/ b % 2 = 1 THEN 1 ELSE 0) + 2 * BitOr(a \div 2, b \div 2)

VARIABLES
    pc, status,
    use_phys, use_hugepages, wantbytes_orig, loops, testmask, free_hugepages,
    buf, aligned, wantbytes, bufsize, do_mlock, done_mem,
    halflen, count, bufa, bufb,
    loop, i, exit_code,
    attempts, stuckRuns, passes, ran, stuckFailed, patFailed,
    allocbytes, pinned, lastPin, fill, stuckArgs, unpinned

vars == << pc, status,
    use_phys, use_hugepages, wantbytes_orig, loops, testmask, free_hugepages,
    buf, aligned, wantbytes, bufsize, do_mlock, done_mem,
    halflen, count, bufa, bufb,
    loop, i, exit_code,
    attempts, stuckRuns, passes, ran, stuckFailed, patFailed,
    allocbytes, pinned, lastPin, fill, stuckArgs, unpinned >>

cfgVars == << use_phys, use_hugepages, wantbytes_orig, loops, testmask >>
splitVars == << halflen, count, bufa, bufb >>
loopVars == << loop, i, exit_code >>
testHist == << stuckRuns, passes, ran, stuckFailed, patFailed >>
\* the bytes really allocated or mapped at buf (0 when none), the range a
\* successful mlock covers (<< >> when none) and the result of the last mlock
\* call
acqHist == << allocbytes, pinned, lastPin >>
\* the range of the last memset since the last test (<< >> when a test has
\* written since), the arguments of the last stuck-address test and the
\* range of the munlock call (<< >> when none)
runHist == << fill, stuckArgs, unpinned >>

(* ---------------- helpers translated from the source ---------------- *)
\* memtester_pagesize: 2MB pages with -H, the system page size otherwise
\* (a failing sysconf is the action PagesizeFail)
pagesize == IF use_hugepages = 1 THEN HugePageSize ELSE PageSize

\* a size check that only rejects an empty request
TooSmall_zero(w, ps) == w = 0

\* main, line 399: alloc.wantbytes < alloc.pagesize
TooSmall(w, ps) == w < ps

\* wantbytes -= pagesize on a size_t (lines 166, 187, 214, 220)
Shrink(w, ps) == ToSize(w - ps)

\* alloc_using_hugepages, lines 152-154
RoundUpHuge(w, ps) ==
    IF w % ps # 0 THEN ToSize(((w \div ps) + 1) * ps) ELSE w

\* a clamp without the test that the free count is positive
HugeShrink_noguard(w, free, ps) ==
    IF w > ToSize(free * ps) THEN ToSize(free * ps) ELSE Shrink(w, ps)

\* alloc_using_hugepages, lines 163-167
HugeShrink(w, free, ps) ==
    IF free > 0 /\ w > ToSize(free * ps) THEN ToSize(free * ps) ELSE Shrink(w, ps)

\* (buf & pagesizemask) + pagesize (lines 198-199, 464-465)
AlignUp(b, ps) == ToSize((b - (b % ps)) + ps)

\* lines 196-206 and 462-472: the aligned base and the reduced bufsize
AlignedOf(b, ps) == IF b % ps # 0 THEN AlignUp(b, ps) ELSE b
BufsizeAfterAlign(b, bs, ps) ==
    IF b % ps # 0 THEN ToInt(bs - ToSize(AlignUp(b, ps) - b)) ELSE bs

\* lines 474-477
HalfLen(bs) == ToSize(CDiv(bs, 2))
Count(hl) == hl \div ULBytes
BufB(al, hl) == ToSize(al + hl)

\* a loop condition that stops the run once a failure is recorded
LoopCond_stop(ls, l) == (ls = 0 \/ l <= ls) /\ exit_code = 0

\* line 479: (!loops) || loop <= loops
LoopCond(ls, l) == ls = 0 \/ l <= ls

\* a skip condition that tests the index instead of the bit 1 << i
TestSkipped_index(mask, k) == mask # 0 /\ BitAnd(k, mask) = 0

\* line 497: testmask && (!((1 << i) & testmask)) is the skip condition
TestSkipped(mask, k) == mask # 0 /\ BitAnd(2 ^ k, mask) = 0

\* exit_code = flag: an assignment in place of the OR
OrFlag_assign(code, flag) == flag

\* exit_code |= flag (lines 490, 505)
OrFlag(code, flag) == BitOr(code, flag)

\* return values of the test functions of tests.c: 0 is ok, -1 a failure
TestResults == {0, -1}

\* addresses malloc can return for n bytes: every word-aligned offset in a
\* page, so the gap to the next page boundary is 0, below, at or above half a
\* page; a size above PTRDIFF_MAX is refused
HeapAddrs(n) ==
    {a \in {2 * PageSize + k * ULBytes : k \in 0 .. (PageSize \div ULBytes - 1)} :
        n < SizeMod \div 2 /\ a + n < SizeMod}
\* addresses a huge-page mmap can return: aligned to the huge page
HugeAddrs(n) == {a \in {HugePageSize} : a + n < SizeMod}
\* addresses a device mmap can return: aligned to the system page
PhysAddrs(n) == {a \in {2 * PageSize, 3 * PageSize} : a + n < SizeMod}

MlockResults == {"ok", "EAGAIN", "ENOMEM", "EPERM", "EINVAL"}

\* line 208: mlock((void *) alloc->aligned, alloc->bufsize), an int passed
\* as a size_t
PinRange(al, bs) == << al, ToSize(bs) >>

\* a permission error that clears the flag and frees the buffer but keeps
\* the reduced size
AfterMlock_noreset(r, b, w) ==
    CASE r = "ok" ->
           [buf |-> b, wantbytes |-> w, do_mlock |-> 1, ret |-> 1, freed |-> FALSE]
      [] r \in {"EAGAIN", "ENOMEM"} ->
           [buf |-> NULL, wantbytes |-> Shrink(w, pagesize), do_mlock |-> 1,
            ret |-> 0, freed |-> TRUE]
      [] r = "EPERM" ->
           [buf |-> NULL, wantbytes |-> w, do_mlock |-> 0, ret |-> 0, freed |-> TRUE]
      [] OTHER ->
           [buf |-> b, wantbytes |-> w, do_mlock |-> 0, ret |-> 1, freed |-> FALSE]

\* an unknown error handled like the permission error: free and retry
AfterMlock_retry(r, b, w) ==
    CASE r = "ok" ->
           [buf |-> b, wantbytes |-> w, do_mlock |-> 1, ret |-> 1, freed |-> FALSE]
      [] r \in {"EAGAIN", "ENOMEM"} ->
           [buf |-> NULL, wantbytes |-> Shrink(w, pagesize), do_mlock |-> 1,
            ret |-> 0, freed |-> TRUE]
      [] OTHER ->
           [buf |-> NULL, wantbytes |-> wantbytes_orig, do_mlock |-> 0,
            ret |-> 0, freed |-> TRUE]

\* lines 208-238: what alloc_using_malloc does with the result r of mlock on
\* the buffer b of w bytes: the new buf, wantbytes and do_mlock, the return
\* value and whether the buffer was freed
AfterMlock(r, b, w) ==
    CASE r = "ok" ->
           [buf |-> b, wantbytes |-> w, do_mlock |-> 1, ret |-> 1, freed |-> FALSE]
      [] r \in {"EAGAIN", "ENOMEM"} ->
           [buf |-> NULL, wantbytes |-> Shrink(w, pagesize), do_mlock |-> 1,
            ret |-> 0, freed |-> TRUE]
      [] r = "EPERM" ->
           [buf |-> NULL, wantbytes |-> wantbytes_orig, do_mlock |-> 0,
            ret |-> 0, freed |-> TRUE]
      [] OTHER ->
           [buf |-> b, wantbytes |-> w, do_mlock |-> 0, ret |-> 1, freed |-> FALSE]

\* a stuck-address test over the words of one half
StuckArgs_half(al, bs) == << al, Count(HalfLen(bs)) >>

\* line 487: test_stuck_address(alloc.aligned, alloc.bufsize / sizeof(ul))
StuckArgs(al, bs) == << al, ToSize(bs) \div ULBytes >>

\* a fill of bufsize bytes from the raw base
FillRange_bufsize(b, w) == << b, ToSize(bufsize) >>

\* line 509: memset((void *) alloc.buf, 255, alloc.wantbytes)
FillRange(b, w) == << b, w >>

\* line 514: if (alloc.do_mlock) munlock((void *) alloc.aligned, alloc.bufsize)
UnpinRange(dm, al, bs) == IF dm = 1 THEN << al, ToSize(bs) >> ELSE << >>

\* the range of len bytes from base lies in the bytes that malloc (line 186)
\* or mmap (lines 157, 430) returned at buf
Inside(base, len) ==
    len = 0 \/ (allocbytes > 0 /\ buf <= base /\ base + len <= buf + allocbytes)

\* an access outside the allocated bytes is undefined: the call returns or
\* the process is killed by a signal (lines 487, 502, 509)
AccessOutcomes(inbounds) ==
    IF inbounds THEN {"returns"} ELSE {"returns", "SIGSEGV"}

(* ---------------- initial state: main after option parsing ---------------- *)
TestMasks == (0 .. MaxMask) \cup {2 ^ (NumTests - 1), 2 ^ NumTests}

\* the state of main at line 392, for a requested size, a loop count and a
\* MEMTESTER_TEST_MASK drawn from the given sets
InitWith(Sizes, Loops, Masks) ==
    /\ pc = "start"
    /\ status = Running
    /\ use_phys \in {0, 1}
    /\ use_hugepages \in {0, 1}
    /\ wantbytes_orig \in Sizes
    /\ loops \in Loops
    /\ testmask \in Masks
    /\ free_hugepages = 0
    /\ buf = NULL
    /\ aligned = NULL
    /\ wantbytes = wantbytes_orig
    /\ bufsize = 0
    /\ do_mlock = 1
    /\ done_mem = 0
    /\ halflen = 0 /\ count = 0 /\ bufa = NULL /\ bufb = NULL
    /\ loop = 0 /\ i = 0 /\ exit_code = 0
    /\ attempts = 0
    /\ stuckRuns = 0 /\ passes = 0 /\ ran = << >>
    /\ stuckFailed = FALSE /\ patFailed = FALSE
    /\ allocbytes = 0 /\ pinned = << >> /\ lastPin = "none"
    /\ fill = << >> /\ stuckArgs = << >> /\ unpinned = << >>

\* where main goes after the optional physical mapping (lines 449-455)
AfterPhys(dm) ==
    IF use_hugepages = 1 THEN "huge_enter"
    ELSE IF dm = 0 THEN "malloc" ELSE "align"

\* exit(code) before the tests (lines 397, 402, 428, 436, 175)
Exit(code) ==
    /\ pc' = "fatal"
    /\ status' = code

(* ---------------- memtester_pagesize, lines 90-94 ---------------- *)
\* the call of line 273: sysconf(_SC_PAGE_SIZE) fails
PagesizeFail ==
    /\ pc = "start"
    /\ Exit(EXIT_FAIL_NONSTARTER)
    /\ UNCHANGED << cfgVars, free_hugepages, buf, aligned, wantbytes, bufsize,
                    do_mlock, done_mem, splitVars, loopVars, attempts, testHist >>
    /\ UNCHANGED << acqHist, runHist >>

(* ---------------- main, lines 392-421 ---------------- *)
CheckSize ==
    /\ pc = "start"
    /\ IF TooSmall(wantbytes, pagesize)
       THEN Exit(EXIT_FAIL_NONSTARTER)
       ELSE /\ pc' = IF use_phys = 1 THEN "phys" ELSE AfterPhys(0)
            /\ status' = status
    /\ UNCHANGED << cfgVars, free_hugepages, buf, aligned, wantbytes, bufsize,
                    do_mlock, done_mem, splitVars, loopVars, attempts, testHist >>
    /\ UNCHANGED << acqHist, runHist >>

(* ---------------- main, lines 423-447 ---------------- *)
PhysOpenFail ==
    /\ pc = "phys"
    /\ Exit(EXIT_FAIL_NONSTARTER)
    /\ UNCHANGED << cfgVars, free_hugepages, buf, aligned, wantbytes, bufsize,
                    do_mlock, done_mem, splitVars, loopVars, attempts, testHist >>
    /\ UNCHANGED << acqHist, runHist >>

PhysMapFail ==
    /\ pc = "phys"
    /\ attempts < MaxAttempts
    /\ buf' = MAP_FAILED
    /\ attempts' = attempts + 1
    /\ Exit(EXIT_FAIL_NONSTARTER)
    /\ UNCHANGED << cfgVars, free_hugepages, aligned, wantbytes, bufsize,
                    do_mlock, done_mem, splitVars, loopVars, testHist >>
    /\ UNCHANGED << acqHist, runHist >>

PhysMap ==
    /\ pc = "phys"
    /\ attempts < MaxAttempts
    /\ \E a \in PhysAddrs(wantbytes), locked \in BOOLEAN :
        /\ buf' = a
        /\ do_mlock' = IF locked THEN do_mlock ELSE 0
        /\ bufsize' = ToInt(wantbytes)
        /\ aligned' = a
        /\ pinned' = IF locked THEN << a, wantbytes >> ELSE << >>
        /\ lastPin' = IF locked THEN "ok" ELSE "failed"
    /\ done_mem' = 1
    /\ attempts' = attempts + 1
    /\ pc' = AfterPhys(1)
    /\ UNCHANGED << status, cfgVars, free_hugepages, wantbytes, splitVars,
                    loopVars, testHist >>
    /\ allocbytes' = wantbytes
    /\ UNCHANGED runHist

(* ---------------- alloc_using_hugepages ---------------- *)
\* lines 150-154
HugeEnter ==
    /\ pc = "huge_enter"
    /\ free_hugepages' \in (-1) .. MaxFree
    /\ wantbytes' = RoundUpHuge(wantbytes, pagesize)
    /\ pc' = "huge_loop"
    /\ UNCHANGED << status, cfgVars, buf, aligned, bufsize, do_mlock, done_mem,
                    splitVars, loopVars, attempts, testHist >>
    /\ UNCHANGED << acqHist, runHist >>

\* one pass of the loop of lines 156-180 whose mmap fails with ENOMEM
HugeNoMem ==
    /\ pc = "huge_loop"
    /\ buf = NULL /\ wantbytes # 0
    /\ attempts < MaxAttempts
    /\ buf' = NULL
    /\ wantbytes' = HugeShrink(wantbytes, free_hugepages, pagesize)
    /\ pc' = IF wantbytes' < pagesize THEN "align" ELSE "huge_loop"
    /\ attempts' = attempts + 1
    /\ UNCHANGED << status, cfgVars, free_hugepages, aligned, bufsize, do_mlock,
                    done_mem, splitVars, loopVars, testHist >>
    /\ UNCHANGED << acqHist, runHist >>

\* mmap fails with another error: exit(EXIT_FAILURE)
HugeMapFail ==
    /\ pc = "huge_loop"
    /\ buf = NULL /\ wantbytes # 0
    /\ attempts < MaxAttempts
    /\ buf' = MAP_FAILED
    /\ attempts' = attempts + 1
    /\ Exit(EXIT_FAILURE)
    /\ UNCHANGED << cfgVars, free_hugepages, aligned, wantbytes, bufsize,
                    do_mlock, done_mem, splitVars, loopVars, testHist >>
    /\ UNCHANGED << acqHist, runHist >>

\* mmap succeeds
HugeMapped ==
    /\ pc = "huge_loop"
    /\ buf = NULL /\ wantbytes # 0
    /\ attempts < MaxAttempts
    /\ \E a \in HugeAddrs(wantbytes) : buf' = a
    /\ attempts' = attempts + 1
    /\ UNCHANGED << pc, status, cfgVars, free_hugepages, aligned, wantbytes,
                    bufsize, do_mlock, done_mem, splitVars, loopVars, testHist >>
    /\ allocbytes' = wantbytes
    /\ UNCHANGED << pinned, lastPin, runHist >>

\* the loop condition of line 156 is false: return to main
HugeReturn ==
    /\ pc = "huge_loop"
    /\ ~(buf = NULL /\ wantbytes # 0)
    /\ pc' = "align"
    /\ UNCHANGED << status, cfgVars, free_hugepages, buf, aligned, wantbytes,
                    bufsize, do_mlock, done_mem, splitVars, loopVars, attempts,
                    testHist >>
    /\ UNCHANGED << acqHist, runHist >>

(* ---------------- alloc_using_malloc ---------------- *)
\* one pass of the loop of lines 185-188
MallocTry ==
    /\ pc = "malloc"
    /\ buf = NULL /\ wantbytes # 0
    /\ attempts < MaxAttempts
    /\ \/ /\ buf' = NULL
          /\ wantbytes' = Shrink(wantbytes, pagesize)
          /\ allocbytes' = allocbytes
       \/ /\ \E a \in HeapAddrs(wantbytes) : buf' = a
          /\ wantbytes' = wantbytes
          /\ allocbytes' = wantbytes
    /\ attempts' = attempts + 1
    /\ UNCHANGED << pc, status, cfgVars, free_hugepages, aligned, bufsize,
                    do_mlock, done_mem, splitVars, loopVars, testHist >>
    /\ UNCHANGED << pinned, lastPin, runHist >>

\* lines 189-244, and the test of the caller's loop (lines 452-454)
MallocLock ==
    /\ pc = "malloc"
    /\ ~(buf = NULL /\ wantbytes # 0)
    /\ IF do_mlock = 1
       THEN /\ aligned' = AlignedOf(buf, pagesize)
            /\ bufsize' = BufsizeAfterAlign(buf, ToInt(wantbytes), pagesize)
            /\ \E r \in MlockResults :
                 LET m == AfterMlock(r, buf, wantbytes) IN
                 /\ buf' = m.buf
                 /\ wantbytes' = m.wantbytes
                 /\ do_mlock' = m.do_mlock
                 /\ done_mem' = m.ret
                 /\ allocbytes' = IF m.freed THEN 0 ELSE allocbytes
                 /\ pinned' = IF r = "ok" THEN PinRange(aligned', bufsize')
                               ELSE << >>
                 /\ lastPin' = r
       ELSE /\ bufsize' = ToInt(wantbytes)
            /\ done_mem' = 1
            /\ UNCHANGED << buf, aligned, wantbytes, do_mlock, acqHist >>
    /\ pc' = IF done_mem' = 0 THEN "malloc" ELSE "align"
    /\ UNCHANGED << status, cfgVars, free_hugepages, splitVars, loopVars,
                    attempts, testHist, runHist >>

(* ---------------- main, lines 457-479 ---------------- *)
Align ==
    /\ pc = "align"
    /\ aligned' = AlignedOf(buf, pagesize)
    /\ bufsize' = BufsizeAfterAlign(buf, bufsize, pagesize)
    /\ halflen' = HalfLen(bufsize')
    /\ count' = Count(halflen')
    /\ bufa' = aligned'
    /\ bufb' = BufB(aligned', halflen')
    /\ loop' = 1
    /\ pc' = "loop_head"
    /\ UNCHANGED << status, cfgVars, free_hugepages, buf, wantbytes, do_mlock,
                    done_mem, i, exit_code, attempts, testHist >>
    /\ UNCHANGED << acqHist, runHist >>

(* ---------------- the test loop, lines 479-513 ---------------- *)
\* the loop condition holds: the stuck-address test of lines 485-491
StuckAddress ==
    /\ pc = "loop_head"
    /\ LoopCond(loops, loop)
    /\ stuckRuns < MaxPasses
    /\ \E r \in TestResults :
        /\ exit_code' = IF r = 0 THEN exit_code
                        ELSE OrFlag(exit_code, EXIT_FAIL_ADDRESSLINES)
        /\ stuckFailed' = (stuckFailed \/ r # 0)
    /\ stuckRuns' = stuckRuns + 1
    /\ ran' = << >>
    /\ i' = 0
    /\ \E o \in AccessOutcomes(Inside(StuckArgs(aligned, bufsize)[1],
                                       StuckArgs(aligned, bufsize)[2] * ULBytes)) :
        pc' = IF o = "returns" THEN "tests" ELSE "crashed"
    /\ UNCHANGED << status, cfgVars, free_hugepages, buf, aligned, wantbytes,
                    bufsize, do_mlock, done_mem, splitVars, loop, attempts,
                    passes, patFailed >>
    /\ stuckArgs' = StuckArgs(aligned, bufsize)
    /\ fill' = << >>
    /\ UNCHANGED << acqHist, unpinned >>

\* line 493: the end of the table; loop++ of line 479
TestsEnd ==
    /\ pc = "tests"
    /\ i = NumTests
    /\ loop' = ToUL(loop + 1)
    /\ passes' = passes + 1
    /\ pc' = "loop_head"
    /\ UNCHANGED << status, cfgVars, free_hugepages, buf, aligned, wantbytes,
                    bufsize, do_mlock, done_mem, splitVars, i, exit_code,
                    attempts, stuckRuns, ran, stuckFailed, patFailed >>
    /\ UNCHANGED << acqHist, runHist >>

\* lines 497-499: the test is not selected
TestSkip ==
    /\ pc = "tests"
    /\ i # NumTests
    /\ TestSkipped(testmask, i)
    /\ i' = i + 1
    /\ UNCHANGED << pc, status, cfgVars, free_hugepages, buf, aligned, wantbytes,
                    bufsize, do_mlock, done_mem, splitVars, loop, exit_code,
                    attempts, testHist >>
    /\ UNCHANGED << acqHist, runHist >>

\* lines 500-509: the test runs, then the buffer is cleared
TestRun ==
    /\ pc = "tests"
    /\ i # NumTests
    /\ ~TestSkipped(testmask, i)
    /\ \E r \in TestResults :
        /\ exit_code' = IF r = 0 THEN exit_code
                        ELSE OrFlag(exit_code, EXIT_FAIL_OTHERTEST)
        /\ patFailed' = (patFailed \/ r # 0)
    /\ ran' = Append(ran, i)
    /\ i' = i + 1
    /\ \E o \in AccessOutcomes(/\ Inside(bufa, count * ULBytes)
                                /\ Inside(bufb, count * ULBytes)
                                /\ Inside(FillRange(buf, wantbytes)[1],
                                          FillRange(buf, wantbytes)[2])) :
        pc' = IF o = "returns" THEN pc ELSE "crashed"
    /\ UNCHANGED << status, cfgVars, free_hugepages, buf, aligned, wantbytes,
                    bufsize, do_mlock, done_mem, splitVars, loop, attempts,
                    stuckRuns, passes, stuckFailed >>
    /\ fill' = FillRange(buf, wantbytes)
    /\ UNCHANGED << acqHist, stuckArgs, unpinned >>

\* the loop condition fails: lines 514-517
Finish ==
    /\ pc = "loop_head"
    /\ ~LoopCond(loops, loop)
    /\ pc' = "done"
    /\ status' = exit_code
    /\ UNCHANGED << cfgVars, free_hugepages, buf, aligned, wantbytes, bufsize,
                    do_mlock, done_mem, splitVars, loopVars, attempts, testHist >>
    /\ unpinned' = UnpinRange(do_mlock, aligned, bufsize)
    /\ UNCHANGED << acqHist, fill, stuckArgs >>

Next ==
    \/ PagesizeFail
    \/ CheckSize
    \/ PhysOpenFail
    \/ PhysMapFail
    \/ PhysMap
    \/ HugeEnter
    \/ HugeNoMem
    \/ HugeMapFail
    \/ HugeMapped
    \/ HugeReturn
    \/ MallocTry
    \/ MallocLock
    \/ Align
    \/ StuckAddress
    \/ TestsEnd
    \/ TestSkip
    \/ TestRun
    \/ Finish

\* every requested size, one loop of the first two tests
Init == InitWith(0 .. MaxReq, {1}, {3})
Spec == Init /\ [][Next]_vars

\* a request of one huge page, every loop count and test mask
InitLoop == InitWith({HugePageSize}, 0 .. ULMax, TestMasks)
SpecLoop == InitLoop /\ [][Next]_vars

TypeOK ==
    /\ pc \in {"start", "phys", "huge_enter", "huge_loop", "malloc", "align",
               "loop_head", "tests", "fatal", "done", "crashed"}
    /\ wantbytes \in 0 .. (SizeMod - 1)
    /\ bufsize \in (-(IntMod \div 2)) .. (IntMod \div 2 - 1)
    /\ exit_code \in 0 .. 7

(* ======================= the claims ======================= *)
InTests == pc \in {"loop_head", "tests", "done"}

\* the entries of the test table below k whose bit is set in the mask
\* (every entry for the mask 0), in ascending order
RECURSIVE SelectedBelow(_, _)
SelectedBelow(mask, k) ==
    IF k = 0 THEN << >>
    ELSE IF mask = 0 \/ (mask \div (2 ^ (k - 1))) % 2 = 1
         THEN Append(SelectedBelow(mask, k - 1), k - 1)
         ELSE SelectedBelow(mask, k - 1)

FlagsOf ==
    (IF stuckFailed THEN EXIT_FAIL_ADDRESSLINES ELSE 0)
    + (IF patFailed THEN EXIT_FAIL_OTHERTEST ELSE 0)

\* C1: during the test loop and at the exit that follows it, the exit code is
\* 0x02 if and only if a stuck-address test has failed, plus 0x04 if and only
\* if an executed pattern test has failed; 0x01 is never part of it and a flag
\* once set stays set.
C1_ExitStatus ==
    /\ pc \in {"loop_head", "tests"} => exit_code = FlagsOf
    /\ pc = "done" => status = FlagsOf
C1_Witness ==
    pc = "done" /\ passes = 2 /\ stuckFailed /\ patFailed /\ status = 6

\* C2: in each loop the pattern tests invoked so far are exactly the selected
\* table entries below the current index, once each in ascending order; a
\* completed loop has invoked exactly the selected entries, all of them for
\* the mask 0 and entries 0 and 1 for the mask 0x3.
C2_SelectedTests ==
    /\ pc = "tests" => ran = SelectedBelow(testmask, i)
    /\ pc \in {"loop_head", "done"} /\ passes > 0 =>
          /\ ran = SelectedBelow(testmask, NumTests)
          /\ testmask = 0 => ran = [k \in 1 .. NumTests |-> k - 1]
          /\ testmask = 3 => ran = << 0, 1 >>
C2_Witness ==
    pc = "loop_head" /\ passes = 2 /\ testmask = 3 /\ ran = << 0, 1 >>

\* C3: a loop count N > 0 gives exactly N passes and then the exit; a loop
\* count of 0 never exits.
C3_ExactPasses ==
    /\ loops > 0 => passes <= loops
    /\ pc = "done" => passes = loops
    /\ loops = 0 => pc # "done"

\* C4: the invocations made do not depend on the outcomes: whatever has
\* failed, every loop starts with one stuck-address test, the pattern tests
\* invoked are the selected ones, and the run ends only after all its loops.
C4_NeverStopsEarly ==
    /\ pc = "tests" => stuckRuns = passes + 1 /\ ran = SelectedBelow(testmask, i)
    /\ pc = "loop_head" =>
          /\ stuckRuns = passes
          /\ passes > 0 => ran = SelectedBelow(testmask, NumTests)
    /\ pc = "done" => stuckRuns = passes /\ passes >= loops
C4_Witness ==
    /\ pc = "tests" /\ passes = 1 /\ i = 2 /\ testmask = 0
    /\ stuckFailed /\ patFailed /\ loops = 2

\* C5: a request below one page exits with the non-starter status before any
\* allocation attempt, and no exit with the non-starter status follows a test.
C5_NonStarter ==
    /\ status = EXIT_FAIL_NONSTARTER => stuckRuns = 0 /\ ran = << >>
    /\ wantbytes_orig < pagesize /\ pc # "start" =>
          /\ pc = "fatal" /\ status = EXIT_FAIL_NONSTARTER
          /\ attempts = 0 /\ buf = NULL /\ stuckRuns = 0
C5_Witness ==
    /\ pc = "fatal" /\ status = EXIT_FAIL_NONSTARTER
    /\ wantbytes_orig = PageSize + 1 /\ use_hugepages = 1 /\ attempts = 0

Acquiring == pc \in {"start", "phys", "huge_enter", "huge_loop", "malloc"}

\* C6: once testing starts on a request of at least one page, the usable byte
\* count that is split and tested is strictly positive, even, and at most the
\* requested size.
C6_UsableBytes ==
    InTests /\ wantbytes_orig >= pagesize =>
        bufsize > 0 /\ bufsize % 2 = 0 /\ bufsize <= wantbytes_orig

\* C7: from one allocation attempt to the next the requested size never
\* increases, except for the reset to the original size on the permission
\* error that clears the pin flag.
C7_Step ==
    pc \in {"malloc", "huge_loop"} =>
        \/ wantbytes' <= wantbytes
        \/ do_mlock = 1 /\ do_mlock' = 0 /\ wantbytes' = wantbytes_orig
C7_NonIncreasing == [][C7_Step]_vars

\* C8: the acquisition phase ends after a number of allocation attempts
\* bounded by the requested size in pages, once before and once after the
\* permission-error restart (plus the device mapping and the attempt that
\* ends each descent).
C8_BoundedAttempts ==
    wantbytes_orig >= pagesize =>
        attempts <= 2 * (wantbytes_orig \div pagesize) + 3

\* C9: the two halves have count words each, half B starts where the tested
\* words of half A end, and together they cover exactly the usable bytes from
\* the aligned base.
C9_HalvesCover ==
    InTests =>
        /\ bufa = aligned
        /\ bufb = bufa + count * ULBytes
        /\ 2 * count * ULBytes = bufsize

\* C10: when the request has shrunk below one page without a successful
\* allocation, the acquisition ends in the fatal exit with the non-starter
\* status and no test has been invoked.
C10_FatalBelowPage ==
    buf = NULL /\ wantbytes < pagesize /\ ~Acquiring =>
        pc = "fatal" /\ status = EXIT_FAIL_NONSTARTER /\ stuckRuns = 0

\* C11: when testing starts the aligned base is a multiple of the page size,
\* equal to the raw base when that is aligned and to the next page boundary
\* otherwise, and the usable byte count is the allocated byte count minus the
\* skipped prefix, subtracted once.
C11_AlignedUsable ==
    InTests =>
        /\ aligned % pagesize = 0
        /\ aligned = IF buf % pagesize = 0 THEN buf
                     ELSE ((buf \div pagesize) + 1) * pagesize
        /\ bufsize = allocbytes - (aligned - buf)

\* the step about to be taken is the mlock call of alloc_using_malloc
PinStep == pc = "malloc" /\ ~(buf = NULL /\ wantbytes # 0) /\ do_mlock = 1

\* C12: a pin attempt of the heap path that fails with EPERM clears the pin
\* flag, releases the buffer and resets the request to the original size;
\* from then on the flag stays clear, no pin call is made, nothing is pinned,
\* and the call that finds the allocation loop finished returns to the tests.
C12_Step ==
    /\ PinStep /\ lastPin' = "EPERM" =>
          /\ do_mlock' = 0 /\ buf' = NULL /\ allocbytes' = 0
          /\ wantbytes' = wantbytes_orig /\ pc' = "malloc"
    /\ lastPin = "EPERM" =>
          /\ do_mlock = 0 /\ do_mlock' = 0
          /\ lastPin' = "EPERM" /\ pinned' = << >>
          /\ pc' # "fatal"
          /\ pc = "malloc" /\ ~(buf = NULL /\ wantbytes # 0) => pc' = "align"
          /\ pc' = "done" => unpinned' = << >>
C12_PermissionError == [][C12_Step]_vars
C12_Witness ==
    /\ lastPin = "EPERM" /\ pc = "tests" /\ do_mlock = 0 /\ pinned = << >>
    /\ buf # NULL /\ allocbytes = wantbytes_orig /\ attempts = 3

\* C13: a pin attempt of the heap path that fails with an error other than
\* EAGAIN, ENOMEM and EPERM ends the acquisition at once: the flag is
\* cleared, the raw base, the requested size and the allocation are kept,
\* no allocation attempt follows and the program does not exit fatally.
C13_Step ==
    /\ PinStep /\ lastPin' = "EINVAL" =>
          /\ do_mlock' = 0 /\ buf' = buf /\ wantbytes' = wantbytes
          /\ allocbytes' = allocbytes /\ attempts' = attempts
          /\ pc' = "align" /\ status' = Running
    /\ lastPin = "EINVAL" =>
          /\ do_mlock' = 0 /\ buf' = buf /\ wantbytes' = wantbytes
          /\ allocbytes' = allocbytes /\ attempts' = attempts
          /\ pc' \notin {"malloc", "fatal"}
C13_UnknownPinError == [][C13_Step]_vars
C13_Witness ==
    /\ lastPin = "EINVAL" /\ pc = "tests" /\ do_mlock = 0
    /\ buf # NULL /\ allocbytes = wantbytes /\ wantbytes < wantbytes_orig

\* C14 (as claimed): on the physical-device path the mapping is attempted
\* once at the requested size, a failure to open or map exits with the
\* non-starter status, and the size is not renegotiated: no further
\* allocation attempt is made and, when the tests and the fill run, wantbytes
\* is still the mapped size.
C14_PhysFixedSize ==
    use_phys = 1 =>
        /\ attempts <= 1
        /\ pc = "fatal" => status = EXIT_FAIL_NONSTARTER
        /\ InTests =>
              /\ allocbytes = wantbytes_orig
              /\ wantbytes = allocbytes
              /\ fill # << >> => fill = << buf, allocbytes >>

\* the step about to be taken is a huge-page mmap that fails with ENOMEM
HugeNoMemStep == pc = "huge_loop" /\ attempts' # attempts /\ buf' = NULL

\* C15 (as claimed): the request is rounded up to a multiple of the huge page
\* size; on each ENOMEM the request becomes the free count times the page
\* size when that is smaller than the request, and one page less otherwise,
\* and the mapping is retried.
C15_OrigStep ==
    /\ pc = "huge_enter" =>
          wantbytes' = ((wantbytes + pagesize - 1) \div pagesize) * pagesize
    /\ HugeNoMemStep /\ free_hugepages >= 0 =>
          /\ wantbytes' = IF free_hugepages * pagesize < wantbytes
                          THEN free_hugepages * pagesize
                          ELSE wantbytes - pagesize
          /\ pc' = "huge_loop"
C15_Step ==
    /\ pc = "huge_enter" =>
          wantbytes' = ((wantbytes + pagesize - 1) \div pagesize) * pagesize
    /\ HugeNoMemStep =>
          /\ wantbytes' = IF free_hugepages > 0
                             /\ free_hugepages * pagesize < wantbytes
                          THEN free_hugepages * pagesize
                          ELSE wantbytes - pagesize
          /\ pc' = IF wantbytes' >= pagesize THEN "huge_loop" ELSE "align"
C16_ResetFill ==
    InTests /\ ran # << >> =>
        /\ fill # << >>
        /\ bufsize > 0 =>
              fill[1] <= aligned /\ aligned + bufsize <= fill[1] + fill[2]
C16_Witness ==
    /\ pc = "tests" /\ ran = << 0 >> /\ patFailed /\ use_phys = 0
    /\ bufsize > 0 /\ aligned > buf /\ aligned - buf < PageSize \div 2
    /\ fill = << buf, wantbytes >> /\ wantbytes = 3 * PageSize + 1

\* the number of words in bufsize bytes, bufsize taken as an unsigned value
UsableWords ==
    (IF bufsize >= 0 THEN bufsize ELSE bufsize + SizeMod) \div ULBytes

\* C17: each loop invokes the stuck-address test once, before its pattern
\* tests, from the aligned base over all the words of the usable region, which
\* is both halves and not one of them.
C17_StuckWhole ==
    /\ pc = "tests" => stuckRuns = passes + 1
    /\ pc \in {"loop_head", "done"} => stuckRuns = passes
    /\ InTests /\ stuckRuns > 0 =>
          /\ stuckArgs = << aligned, UsableWords >>
          /\ bufsize >= 2 * ULBytes =>
                stuckArgs[2] >= 2 * count /\ stuckArgs[2] > count
C17_Witness ==
    /\ pc = "tests" /\ passes = 1 /\ stuckRuns = 2 /\ ran = << >>
    /\ bufsize = 2 * PageSize /\ stuckArgs = << aligned, PageSize >>
    /\ count = PageSize \div 2

\* C18: every range handed to a test or filled lies inside the region really
\* allocated or mapped: the stuck-address range, both halves and the fill.
C18_InBounds ==
    InTests =>
        /\ stuckRuns > 0 => Inside(stuckArgs[1], stuckArgs[2] * ULBytes)
        /\ ran # << >> =>
              /\ Inside(bufa, count * ULBytes)
              /\ Inside(bufb, count * ULBytes)
              /\ fill # << >> => Inside(fill[1], fill[2])

\* C19: when the tests start with do_mlock set, a pin call covering the
\* tested range has succeeded; when none has, the flag is clear and no
\* munlock is issued.
C19_PinFlag ==
    InTests =>
        /\ do_mlock = 1 =>
              /\ pinned # << >>
              /\ bufsize > 0 =>
                    /\ pinned[1] <= aligned
                    /\ aligned + bufsize <= pinned[1] + pinned[2]
        /\ pinned = << >> => do_mlock = 0
        /\ pc = "done" /\ pinned = << >> => unpinned = << >>
====
